---- MODULE Spec2Model ----
(***************************************************************************)
(* A model of avro_streamer.py: the incremental Avro Object Container File *)
(* transcoder GenericStreamingAvroParser and its field-stripping subclass  *)
(* GenericStrippingAvroParser.                                             *)
(*                                                                         *)
(* Bytes are the integers 0..255 and a Python byte string is a sequence of *)
(* bytes.  The parser object's attributes are the variables of the same    *)
(* name.  One call of next() is a NextCall step followed, for as long as   *)
(* the parse attempt raises AvroInsufficientDataException, by a pull from  *)
(* the source (PullChunk, PullEmpty or PullStop) and a Retry (the          *)
(* recursive self.next() of line 354).                                     *)
(***************************************************************************)
EXTENDS Integers, Sequences, FiniteSets, TLC

(***************************************************************************)
(* Program constants.                                                      *)
(***************************************************************************)
AVRO_HEADER_MAGIC == 1
AVRO_HEADER_FILE_METADATA == 2
AVRO_SYNC_MARKER == 3
AVRO_START_DATABLOCK == 4

\* b"Obj\x01" and its length (lines 160-169)
HeaderMagic == <<79, 98, 106, 1>>
MagicLen == 4
\* the length of a sync marker (lines 211-220)
SyncLen == 16
\* the bytes of the checksum footer of a snappy block (lines 280, 300)
CsumLen == 4

\* "avro.codec", "avro.schema", "snappy", "deflate", "null" as byte strings
AvroCodecKey == <<97, 118, 114, 111, 46, 99, 111, 100, 101, 99>>
AvroSchemaKey == <<97, 118, 114, 111, 46, 115, 99, 104, 101, 109, 97>>
SnappyName == <<115, 110, 97, 112, 112, 121>>
DeflateName == <<100, 101, 102, 108, 97, 116, 101>>
NullName == <<110, 117, 108, 108>>

\* Python's None, for self.codec and self.syncmarker: no byte string
NoneVal == <<-1>>

\* the names of the exceptions a parse step can raise ("none": it returned)
NoExc == "none"
InsufficientData == "AvroInsufficientDataException"
ParsingFailure == "AvroParsingFailureException"
IndexError == "IndexError"
KeyError == "KeyError"
ValueError == "ValueError"
UncompressError == "UncompressError"
TypeError == "TypeError"

(***************************************************************************)
(* The state: the parser object's attributes, the source it reads from,    *)
(* and what the caller has seen of the calls of next().                    *)
(***************************************************************************)
VARIABLES
  scn,        \* the scenario: the index of the input and parser in Scenarios
  order,      \* the byte order struct.pack("I", ...) writes on this machine
  cls,        \* the parser's class
  tostrip,    \* self.tostrip
  source,     \* the bytes self.source has yet to yield
  ended,      \* self.source has raised StopIteration
  empties,    \* the empty chunks self.source has yielded
  buffered,   \* self.buffered
  blen,       \* self.blen
  bused,      \* self.bused
  schema,     \* self.schema
  codec,      \* self.codec
  state,      \* self.state
  syncmarker, \* self.syncmarker
  saved,      \* self.saved
  pc,         \* where next() is: "idle" (not running), "pull", "retry"
  result,     \* how the latest call of next() ended: "none" (no call has
              \* ended), "chunk", "StopIteration" or the exception raised
  msg,        \* the message of the exception of result
  out,        \* the chunks next() has returned, in order
  after,      \* the calls made after a call has raised
  given,      \* the argument of a call of _encode_long on its own
  written,    \* what that call returned
  readback,   \* what _read_long returned for these bytes
  blockcount, \* block_count of _parse_file_metadata, followed pass by pass
  todo,       \* the entries the for loop of line 182 has yet to read
  passes,     \* the passes of the while loop of line 181 in this call
  mark        \* self.bused and block_count as the latest pass began

\* the variables of the calls of the integer codec on its own
codecvars == <<given, written, readback>>

\* the variables of _parse_file_metadata followed pass by pass
loopvars == <<blockcount, todo, passes, mark>>

vars == <<scn, order, cls, tostrip, source, ended, empties, buffered, blen,
          bused, schema, codec, state, syncmarker, saved, pc, result, msg,
          out, after, given, written, readback,
          blockcount, todo, passes, mark>>

(***************************************************************************)
(* Python sequence operations.                                             *)
(***************************************************************************)
Min(a, b) == IF a < b THEN a ELSE b
Max(a, b) == IF a > b THEN a ELSE b

\* a slice bound as Python resolves it: negative bounds count from the end,
\* and every bound is clamped to 0..n
PyBound(i, n) == IF i < 0 THEN Max(i + n, 0) ELSE Min(i, n)

\* s[a:b]
PySlice(s, a, b) ==
  LET lo == PyBound(a, Len(s))
      hi == PyBound(b, Len(s))
  IN IF lo >= hi THEN <<>> ELSE SubSeq(s, lo + 1, hi)

\* s[a:]
PyFrom(s, a) == PySlice(s, a, Len(s))

RECURSIVE Concat(_)
\* "".join(chunks)
Concat(ss) == IF ss = <<>> THEN <<>> ELSE Head(ss) \o Concat(Tail(ss))

(***************************************************************************)
(* The primitive codec: zig-zag base-128 integers and length-prefixed byte *)
(* strings.  A read returns [exc, val, used]: exc is the exception raised  *)
(* (NoExc when the read returned (val, used)).                             *)
(***************************************************************************)
RECURSIVE EncodeGroups(_)
\* lines 83-86: the base-128 groups of the zig-zagged value, low group first
EncodeGroups(z) ==
  IF z >= 128 THEN <<(z % 128) + 128>> \o EncodeGroups(z \div 128)
  ELSE <<z>>

\* line 82: (toenc << 1) ^ (toenc >> 63), for -2^63 <= toenc < 2^63
ZigZag(toenc) == IF toenc >= 0 THEN 2 * toenc ELSE -2 * toenc - 1

\* _encode_long
_encode_long(toenc) == EncodeGroups(ZigZag(toenc))

\* line 107: (n >> 1) ^ -(n & 1)
UnZigZag(n) == IF n % 2 = 0 THEN n \div 2 ELSE -((n + 1) \div 2)

RECURSIVE ReadLongLoop(_, _, _, _, _, _)
\* lines 99-107; mult is 2^shift
ReadLongLoop(buf, len, b, ind, n, mult) ==
  IF b < 128 THEN [exc |-> NoExc, val |-> UnZigZag(n), used |-> ind]
  ELSE IF len <= ind THEN [exc |-> InsufficientData, val |-> 0, used |-> 0]
  ELSE IF ind >= Len(buf) THEN [exc |-> IndexError, val |-> 0, used |-> 0]
  ELSE ReadLongLoop(buf, len, buf[ind + 1], ind + 1,
                    n + (buf[ind + 1] % 128) * mult, mult * 128)

\* _read_long(buffered, blen); blen is the length the caller claims
_read_long(buf, len) ==
  IF len = 0 THEN [exc |-> InsufficientData, val |-> 0, used |-> 0]
  ELSE IF Len(buf) = 0 THEN [exc |-> IndexError, val |-> 0, used |-> 0]
  ELSE ReadLongLoop(buf, len, buf[1], 1, buf[1] % 128, 128)

\* lines 113-118: _read_bytes once the length prefix r has been read
BytesAfterLength(buf, len, r) ==
  IF r.exc # NoExc THEN [exc |-> r.exc, val |-> <<>>, used |-> 0]
  ELSE IF len < r.val + r.used
  THEN [exc |-> InsufficientData, val |-> <<>>, used |-> 0]
  ELSE [exc |-> NoExc, val |-> PySlice(buf, r.used, r.used + r.val),
        used |-> r.val + r.used]

\* _read_bytes(buffered, blen)
_read_bytes(buf, len) == BytesAfterLength(buf, len, _read_long(buf, len))

(***************************************************************************)
(* The integer codec over the whole range of a signed 64-bit value.  A     *)
(* Python integer is [neg, mag]: its sign and the base-128 digits of its   *)
(* magnitude, lowest first, the highest not 0 (no digits: the value 0).    *)
(***************************************************************************)
\* the shift of line 82: a value has a sign bit and LongBits bits more
LongBits == 63

Wide(neg, mag) == [neg |-> neg, mag |-> mag]
WideZero == Wide(FALSE, <<>>)

RECURSIVE Normal(_)
\* the digits without their highest zeros
Normal(d) ==
  IF d = <<>> \/ d[Len(d)] # 0 THEN d ELSE Normal(SubSeq(d, 1, Len(d) - 1))

RECURSIVE DoubleDigits(_, _)
\* d << 1, with the carry of the digits below
DoubleDigits(d, carry) ==
  IF d = <<>> THEN (IF carry = 0 THEN <<>> ELSE <<carry>>)
  ELSE <<(2 * d[1] + carry) % 128>>
       \o DoubleDigits(Tail(d), (2 * d[1] + carry) \div 128)

RECURSIVE HalveDigits(_)
\* d >> 1
HalveDigits(d) ==
  IF d = <<>> THEN <<>>
  ELSE <<(d[1] \div 2) + (IF Len(d) > 1 THEN (d[2] % 2) * 64 ELSE 0)>>
       \o HalveDigits(Tail(d))

RECURSIVE Decrement(_)
\* d - 1, for d > 0
Decrement(d) ==
  IF d[1] > 0 THEN <<d[1] - 1>> \o Tail(d) ELSE <<127>> \o Decrement(Tail(d))

RECURSIVE Increment(_)
\* d + 1
Increment(d) ==
  IF d = <<>> THEN <<1>>
  ELSE IF d[1] < 127 THEN <<d[1] + 1>> \o Tail(d)
  ELSE <<0>> \o Increment(Tail(d))

\* no call of _read_long has returned yet
Unread == [exc |-> "unread", val |-> WideZero, used |-> 0]

\* a variant of line 82: toenc << 1 alone
WideShiftOnly(v) == DoubleDigits(v.mag, 0)

\* line 82: (toenc << 1) ^ (toenc >> 63), for -2^63 <= toenc < 2^63: the
\* shift by 63 leaves 0 or -1, and x ^ -1 is -x - 1
WideZigZag(v) ==
  IF v.neg THEN Normal(Decrement(DoubleDigits(v.mag, 0)))
  ELSE DoubleDigits(v.mag, 0)

RECURSIVE WideGroups(_)
\* lines 83-86, on the digits of the zig-zagged value
WideGroups(z) ==
  IF Len(z) > 1 THEN <<z[1] + 128>> \o WideGroups(Tail(z))
  ELSE IF z = <<>> THEN <<0>>
  ELSE <<z[1]>>

\* _encode_long
WideEncodeLong(v) == WideGroups(WideZigZag(v))

\* line 107: (n >> 1) ^ -(n & 1)
WideUnZigZag(n) ==
  IF n = <<>> \/ n[1] % 2 = 0 THEN Wide(FALSE, Normal(HalveDigits(n)))
  ELSE Wide(TRUE, Normal(Increment(HalveDigits(n))))

RECURSIVE WideReadLoop(_, _, _, _, _)
\* lines 99-107; n holds the digits or-ed in so far
WideReadLoop(buf, len, b, ind, n) ==
  IF b < 128 THEN [exc |-> NoExc, val |-> WideUnZigZag(n), used |-> ind]
  ELSE IF len <= ind
  THEN [exc |-> InsufficientData, val |-> WideZero, used |-> 0]
  ELSE IF ind >= Len(buf) THEN [exc |-> IndexError, val |-> WideZero, used |-> 0]
  ELSE WideReadLoop(buf, len, buf[ind + 1], ind + 1,
                    Append(n, buf[ind + 1] % 128))

\* _read_long(buffered, blen)
WideReadLong(buf, len) ==
  IF len = 0 THEN [exc |-> InsufficientData, val |-> WideZero, used |-> 0]
  ELSE IF Len(buf) = 0 THEN [exc |-> IndexError, val |-> WideZero, used |-> 0]
  ELSE WideReadLoop(buf, len, buf[1], 1, <<buf[1] % 128>>)

(***************************************************************************)
(* json.loads and json.dumps.  A schema document is modelled in a reduced  *)
(* concrete syntax that keeps what the two library calls do to the text:   *)
(*     doc   ::= "{}"  |  "[" [ field { "," field } ] "]"                  *)
(*     field ::= name ":" type                                             *)
(* where "{}" is a schema object with no 'fields' key, "[...]" a schema    *)
(* object whose 'fields' list is the fields given, a name is one of the    *)
(* letters a, b, c and a type one of l(ong), i(nt), s(tring), f(loat),     *)
(* each standing for the object {"type": t} that line 245 expects, or L,   *)
(* standing for the plain string "long".  As in JSON, spaces between       *)
(* tokens are insignificant to loads, and dumps writes Python's default    *)
(* separators ", " and ": ".                                               *)
(***************************************************************************)
LBracket == <<91>>
RBracket == <<93>>
EmptyObject == <<123, 125>>
\* the characters "," ":" " "
Comma == 44
Colon == 58
Space == 32

\* the letter L
PlainLong == 76

NameCodes == {97, 98, 99}
TypeCodes == {108, 105, 115, 102, PlainLong}
NameOf(c) == CASE c = 97 -> "a" [] c = 98 -> "b" [] OTHER -> "c"
TypeOf(c) ==
  CASE c = 108 -> "long" [] c = 105 -> "int" [] c = 115 -> "string"
    [] c = PlainLong -> "long" [] OTHER -> "float"
NameCode(n) == CASE n = "a" -> 97 [] n = "b" -> 98 [] OTHER -> 99
TypeCode(t) ==
  CASE t = "long" -> 108 [] t = "int" -> 105 [] t = "string" -> 115
    [] OTHER -> 102

\* a field of a schema: its 'name', and its 'type', which is the object
\* {"type": type} when nested and the string type otherwise
Field(name, type) == [name |-> name, type |-> type, nested |-> TRUE]
PlainField(name, type) == [name |-> name, type |-> type, nested |-> FALSE]

\* the tokens between the brackets are name ":" type { "," name ":" type }
WellFormedFields(t) ==
  \/ Len(t) = 0
  \/ /\ Len(t) % 4 = 3
     /\ \A i \in 1..Len(t) :
          CASE i % 4 = 1 -> t[i] \in NameCodes
            [] i % 4 = 2 -> t[i] = Colon
            [] i % 4 = 3 -> t[i] \in TypeCodes
            [] OTHER -> t[i] = Comma

RECURSIVE FieldsOf(_)
FieldsOf(t) ==
  IF Len(t) < 3 THEN <<>>
  ELSE <<IF t[3] = PlainLong THEN PlainField(NameOf(t[1]), TypeOf(t[3]))
         ELSE Field(NameOf(t[1]), TypeOf(t[3]))>>
       \o FieldsOf(SubSeq(t, 5, Len(t)))

\* the document of the tokens t
Document(t) ==
  IF t = EmptyObject
  THEN [exc |-> NoExc, hasFields |-> FALSE, fields |-> <<>>]
  ELSE IF /\ Len(t) >= 2
          /\ <<t[1]>> = LBracket
          /\ <<t[Len(t)]>> = RBracket
          /\ WellFormedFields(SubSeq(t, 2, Len(t) - 1))
  THEN [exc |-> NoExc, hasFields |-> TRUE,
        fields |-> FieldsOf(SubSeq(t, 2, Len(t) - 1))]
  ELSE [exc |-> ValueError, hasFields |-> FALSE, fields |-> <<>>]

\* json.loads(text): [exc, hasFields, fields]; ValueError on malformed text
json_loads(text) == Document(SelectSeq(text, LAMBDA c : c # Space))

\* the letter of a field's type
FieldTypeCode(f) == IF f.nested THEN TypeCode(f.type) ELSE PlainLong

RECURSIVE DumpFields(_)
DumpFields(fs) ==
  IF fs = <<>> THEN <<>>
  ELSE <<NameCode(fs[1].name), Colon, Space, FieldTypeCode(fs[1])>>
       \o (IF Len(fs) > 1 THEN <<Comma, Space>> ELSE <<>>)
       \o DumpFields(Tail(fs))

\* json.dumps(jsonschema)
json_dumps(hasFields, fs) ==
  IF hasFields THEN LBracket \o DumpFields(fs) \o RBracket ELSE EmptyObject

(***************************************************************************)
(* snappy.compress and snappy.decompress (python-snappy), for the raw      *)
(* snappy format restricted to streams of at most MaxLiteral uncompressed  *)
(* bytes made of literal elements: a one-byte preamble holding the         *)
(* uncompressed length, then elements, each a tag byte (length-1)*4 + 0    *)
(* followed by that many bytes.  compress writes one literal for the whole *)
(* input, which is what the library does for short input without a         *)
(* repeated 4-byte run; decompress accepts any sequence of literals whose  *)
(* total length is the preamble, and raises UncompressError otherwise.     *)
(***************************************************************************)
MaxLiteral == 60

snappy_compress(data) ==
  IF data = <<>> THEN <<0>>
  ELSE <<Len(data), (Len(data) - 1) * 4>> \o data

RECURSIVE SnappyElements(_, _, _)
\* the bytes of the elements from index i on, after those in val: [ok, val]
SnappyElements(c, i, val) ==
  IF i > Len(c) THEN [ok |-> TRUE, val |-> val]
  ELSE IF c[i] % 4 # 0 \/ (c[i] \div 4) + 1 > MaxLiteral
          \/ i + (c[i] \div 4) + 1 > Len(c)
  THEN [ok |-> FALSE, val |-> <<>>]
  ELSE SnappyElements(c, i + (c[i] \div 4) + 2,
                      val \o SubSeq(c, i + 1, i + (c[i] \div 4) + 1))

\* snappy.decompress once the elements e have been read
Uncompressed(c, e) ==
  IF e.ok /\ Len(e.val) = c[1] THEN [exc |-> NoExc, val |-> e.val]
  ELSE [exc |-> UncompressError, val |-> <<>>]

\* snappy.decompress(c): [exc, val]
snappy_decompress(c) ==
  IF c = <<>> \/ c[1] >= 128 THEN [exc |-> UncompressError, val |-> <<>>]
  ELSE Uncompressed(c, SnappyElements(c, 2, <<>>))

(***************************************************************************)
(* binascii.crc32 and struct.pack("I", ...).  A 32-bit word is the         *)
(* sequence of its four bytes, lowest first.                               *)
(***************************************************************************)
\* 0xEDB88320, the reflected CRC-32 polynomial, and 0xFFFFFFFF
CrcPoly == <<32, 131, 184, 237>>
AllOnes == <<255, 255, 255, 255>>

RECURSIVE XorByte(_, _)
\* a ^ b, for bytes
XorByte(a, b) ==
  IF a = 0 THEN b
  ELSE IF b = 0 THEN a
  ELSE ((a + b) % 2) + 2 * XorByte(a \div 2, b \div 2)

XorWord(x, y) ==
  <<XorByte(x[1], y[1]), XorByte(x[2], y[2]),
    XorByte(x[3], y[3]), XorByte(x[4], y[4])>>

\* x >> 1
ShiftRight(x) ==
  <<(x[1] \div 2) + 128 * (x[2] % 2), (x[2] \div 2) + 128 * (x[3] % 2),
    (x[3] \div 2) + 128 * (x[4] % 2), x[4] \div 2>>

\* one round: shift right, and xor the polynomial in when a 1 fell out
CrcRound(c) ==
  IF c[1] % 2 = 1 THEN XorWord(ShiftRight(c), CrcPoly) ELSE ShiftRight(c)

\* the table of the byte-wise algorithm: eight rounds on each byte
CrcTable ==
  [b \in 0..255 |->
     CrcRound(CrcRound(CrcRound(CrcRound(
       CrcRound(CrcRound(CrcRound(CrcRound(<<b, 0, 0, 0>>))))))))]

\* crc = (crc >> 8) ^ table[(crc ^ b) & 0xFF]
CrcStep(c, b) == XorWord(<<c[2], c[3], c[4], 0>>, CrcTable[XorByte(c[1], b)])

RECURSIVE CrcBytes(_, _)
\* the CRC register c after the bytes of data as well (the test of the new
\* register makes TLC compute it before it goes on, which keeps the
\* evaluation shallow)
CrcBytes(c, data) ==
  IF data = <<>> THEN c
  ELSE LET c1 == CrcStep(c, Head(data))
       IN IF c1 = <<>> THEN c1 ELSE CrcBytes(c1, Tail(data))

\* binascii.crc32(data) & 0xffffffff
crc32(data) == XorWord(CrcBytes(AllOnes, data), AllOnes)

\* struct.pack("I", w) writes the machine's byte order, struct.pack(">I", w)
\* the big-endian order the Avro specification asks of a block's checksum
pack_I(endian, w) ==
  IF endian = "little" THEN <<w[1], w[2], w[3], w[4]>>
  ELSE <<w[4], w[3], w[2], w[1]>>

(***************************************************************************)
(* The parser object.  In the operators below self is the record of the    *)
(* object's attributes (cls: the class, tostrip: the set of field names a  *)
(* GenericStrippingAvroParser removes, order: the machine's byte order)    *)
(* together with the outcome of the parse step under way: exc, the         *)
(* exception it has raised (NoExc while it runs), msg, the exception's     *)
(* message, and ret, the value it returns.  A step that has raised changes *)
(* nothing more: the attributes keep what was assigned before the raise.   *)
(***************************************************************************)
Raise(self, exc, message) == [self EXCEPT !.exc = exc, !.msg = message]

\* the recurring "self.saved += self.buffered[self.bused:self.bused + used];
\* self.bused += used"
SaveAndAdvance(self, used) ==
  [self EXCEPT !.saved = @ \o PySlice(self.buffered, self.bused, self.bused + used),
               !.bused = @ + used]

\* _read_bytes(self.buffered[self.bused:], self.blen - self.bused)
ReadBytesAtCursor(self) ==
  _read_bytes(PyFrom(self.buffered, self.bused), self.blen - self.bused)

\* _read_long(self.buffered[self.bused:], self.blen - self.bused)
ReadLongAtCursor(self) ==
  _read_long(PyFrom(self.buffered, self.bused), self.blen - self.bused)

\* the recurring "x, used = read(...); self.saved += self.buffered[self.bused:
\* self.bused + used]; self.bused += used", once the read has ended as r
SaveRead(self, r) ==
  IF r.exc # NoExc THEN Raise(self, r.exc, "") ELSE SaveAndAdvance(self, r.used)

\* a variant of lines 124-127: line 124 only while self.codec is None
CodecReadFirstWins(self, r) ==
  IF r.exc # NoExc THEN Raise(self, r.exc, "")
  ELSE SaveAndAdvance([self EXCEPT !.codec = IF @ = NoneVal THEN r.val ELSE @],
                      r.used)

\* lines 124-127
CodecRead(self, r) ==
  IF r.exc # NoExc THEN Raise(self, r.exc, "")
  ELSE SaveAndAdvance([self EXCEPT !.codec = r.val], r.used)

\* _read_avro_codec
_read_avro_codec(self) == CodecRead(self, ReadBytesAtCursor(self))

RECURSIVE StripFields(_, _)
\* GenericStrippingAvroParser._parse_schema_fields
StripFields(fields, names) ==
  IF fields = <<>> THEN <<>>
  ELSE (IF Head(fields).name \in names THEN <<>> ELSE <<Head(fields)>>)
       \o StripFields(Tail(fields), names)

\* _parse_schema_fields, as the object's class defines it
_parse_schema_fields(self, fields) ==
  IF self.cls = "GenericStrippingAvroParser"
  THEN StripFields(fields, self.tostrip)
  ELSE fields

\* lines 152-154
SchemaDumped(self, newschema) ==
  [self EXCEPT !.saved = @ \o _encode_long(Len(newschema)) \o newschema]

\* a variant of lines 142-154: self.schema holds the fields that
\* _parse_schema_fields returned
SchemaLoadedFiltered(self, jsonschema) ==
  IF jsonschema.exc # NoExc THEN Raise(self, jsonschema.exc, "")
  ELSE SchemaDumped(
         [self EXCEPT !.schema = [hasFields |-> jsonschema.hasFields,
                                  fields |-> IF jsonschema.hasFields
                                             THEN _parse_schema_fields(
                                                    self, jsonschema.fields)
                                             ELSE <<>>]],
         json_dumps(jsonschema.hasFields,
                    IF jsonschema.hasFields
                    THEN _parse_schema_fields(self, jsonschema.fields)
                    ELSE <<>>))

\* lines 142-154: json.loads has ended as jsonschema
SchemaLoaded(self, jsonschema) ==
  IF jsonschema.exc # NoExc THEN Raise(self, jsonschema.exc, "")
  ELSE SchemaDumped(
         [self EXCEPT !.schema = [hasFields |-> jsonschema.hasFields,
                                  fields |-> jsonschema.fields]],
         json_dumps(jsonschema.hasFields,
                    IF jsonschema.hasFields
                    THEN _parse_schema_fields(self, jsonschema.fields)
                    ELSE <<>>))

\* lines 140-154
SchemaRead(self, r) ==
  IF r.exc # NoExc THEN Raise(self, r.exc, "")
  ELSE SchemaLoaded([self EXCEPT !.bused = @ + r.used], json_loads(r.val))

\* _read_avro_schema
_read_avro_schema(self) == SchemaRead(self, ReadBytesAtCursor(self))

\* a variant of _parse_header_magic: without the comparison of line 163
HeaderMagicUnchecked(self) ==
  IF self.blen - self.bused < MagicLen THEN Raise(self, InsufficientData, "")
  ELSE [self EXCEPT
          !.state = AVRO_HEADER_FILE_METADATA,
          !.ret = PySlice(self.buffered, self.bused, self.bused + MagicLen),
          !.buffered = PyFrom(self.buffered, self.bused + MagicLen),
          !.blen = @ - (self.bused + MagicLen)]

\* _parse_header_magic, after self.bused = 0
HeaderMagicAtStart(self) ==
  IF self.blen - self.bused < MagicLen THEN Raise(self, InsufficientData, "")
  ELSE IF PySlice(self.buffered, self.bused, MagicLen + self.bused) # HeaderMagic
  THEN Raise(self, ParsingFailure, "Invalid Header Magic")
  ELSE [self EXCEPT
          !.state = AVRO_HEADER_FILE_METADATA,
          !.ret = PySlice(self.buffered, self.bused, self.bused + MagicLen),
          !.buffered = PyFrom(self.buffered, self.bused + MagicLen),
          !.blen = @ - (self.bused + MagicLen)]

\* _parse_header_magic
_parse_header_magic(self) == HeaderMagicAtStart([self EXCEPT !.bused = 0])

\* lines 188-197: the value of the entry whose key has been read
MetadataValue(self, key) ==
  IF key = AvroCodecKey THEN _read_avro_codec(self)
  ELSE IF key = AvroSchemaKey THEN _read_avro_schema(self)
  ELSE SaveRead(self, ReadBytesAtCursor(self))

\* lines 185-197
KeyRead(self, k) ==
  IF k.exc # NoExc THEN Raise(self, k.exc, "")
  ELSE MetadataValue(SaveAndAdvance(self, k.used), k.val)

\* lines 183-197: one key/value pair of the metadata map
MetadataEntry(self) == KeyRead(self, ReadBytesAtCursor(self))

RECURSIVE MetadataEntries(_, _)
\* line 182: for i in xrange(block_count)
MetadataEntries(self, count) ==
  IF count <= 0 \/ self.exc # NoExc THEN self
  ELSE MetadataEntries(MetadataEntry(self), count - 1)

RECURSIVE MetadataBlocks(_, _)
\* lines 201-202, and the loop again with the count read
BlockCountRead(self, r) ==
  IF r.exc # NoExc THEN Raise(self, r.exc, "")
  ELSE MetadataBlocks(SaveAndAdvance(self, r.used), r.val)

\* lines 199-202: the count of the next block of the map
NextBlockCount(self) ==
  IF self.exc # NoExc THEN self
  ELSE BlockCountRead(self, ReadLongAtCursor(self))

\* lines 181-202: while block_count != 0
MetadataBlocks(self, block_count) ==
  IF self.exc # NoExc \/ block_count = 0 THEN self
  ELSE NextBlockCount(MetadataEntries(self, block_count))

\* a variant of lines 204-208: line 206 sets the data block state
MetadataDoneToBlock(self) ==
  IF self.exc # NoExc THEN self
  ELSE [self EXCEPT !.buffered = PyFrom(self.buffered, self.bused),
                    !.blen = @ - self.bused,
                    !.state = AVRO_START_DATABLOCK,
                    !.ret = self.saved]

\* lines 204-208
MetadataDone(self) ==
  IF self.exc # NoExc THEN self
  ELSE [self EXCEPT !.buffered = PyFrom(self.buffered, self.bused),
                    !.blen = @ - self.bused,
                    !.state = AVRO_SYNC_MARKER,
                    !.ret = self.saved]

\* lines 178-208
FirstCountRead(self, r) ==
  IF r.exc # NoExc THEN Raise(self, r.exc, "")
  ELSE MetadataDone(
         MetadataBlocks(
           [self EXCEPT !.saved = @ \o PySlice(self.buffered, 0, r.used),
                        !.bused = @ + r.used],
           r.val))

\* lines 176-208
MetadataAtStart(self) ==
  FirstCountRead(self, _read_long(self.buffered, self.blen))

\* a variant of _parse_file_metadata: without line 174
MetadataKeepsSaved(self) == MetadataAtStart([self EXCEPT !.bused = 0])

\* _parse_file_metadata
_parse_file_metadata(self) ==
  MetadataAtStart([self EXCEPT !.saved = <<>>, !.bused = 0])

\* lines 214-222: the marker is the one kept, or the one now captured
SyncMarkerIs(self, marker) ==
  [self EXCEPT !.syncmarker = marker,
               !.buffered = PyFrom(self.buffered, SyncLen),
               !.blen = @ - SyncLen,
               !.state = AVRO_START_DATABLOCK,
               !.ret = marker]

\* a variant of _parse_sync_marker: line 215 for every marker read
SyncMarkerRecaptured(self) ==
  IF self.blen < SyncLen THEN Raise(self, InsufficientData, "")
  ELSE SyncMarkerIs(self, PySlice(self.buffered, 0, SyncLen))

\* _parse_sync_marker
_parse_sync_marker(self) ==
  IF self.blen < SyncLen THEN Raise(self, InsufficientData, "")
  ELSE IF self.syncmarker = NoneVal
  THEN SyncMarkerIs(self, PySlice(self.buffered, 0, SyncLen))
  ELSE IF PySlice(self.buffered, 0, SyncLen) # self.syncmarker
  THEN Raise(self, ParsingFailure, "Sync Marker does not match marker in header")
  ELSE SyncMarkerIs(self, self.syncmarker)

\* GenericStreamingAvroParser._reencode_field
BaseReencodeField(val, ftype) ==
  IF ftype = "long" \/ ftype = "int" THEN _encode_long(val)
  ELSE _encode_long(Len(val)) \o val

\* a variant of _reencode_field: line 381 without its test
ReencodeFieldUnstripped(self, val, ftype, fname) ==
  BaseReencodeField(val, ftype)

\* _reencode_field, as the object's class defines it
_reencode_field(self, val, ftype, fname) ==
  IF self.cls = "GenericStrippingAvroParser" /\ fname \in self.tostrip
  THEN <<>>
  ELSE BaseReencodeField(val, ftype)

RECURSIVE RecordFields(_, _, _, _, _)
\* lines 248-258: the read of the i-th field has ended as r
FieldRead(self, src, i, encoded, skip, r) ==
  IF r.exc # NoExc
  THEN [exc |-> r.exc, msg |-> "", encoded |-> encoded, skip |-> skip]
  ELSE RecordFields(self, src, i + 1,
                    encoded \o _reencode_field(self, r.val,
                                               self.schema.fields[i].type,
                                               self.schema.fields[i].name),
                    skip + r.used)

\* lines 244-258: the fields from the i-th on; [exc, msg, encoded, skip]
RecordFields(self, src, i, encoded, skip) ==
  IF i > Len(self.schema.fields)
  THEN [exc |-> NoExc, msg |-> "", encoded |-> encoded, skip |-> skip]
  ELSE IF ~self.schema.fields[i].nested
  THEN [exc |-> TypeError, msg |-> "string indices must be integers",
        encoded |-> encoded, skip |-> skip]
  ELSE IF self.schema.fields[i].type \in {"long", "int"}
  THEN FieldRead(self, src, i, encoded, skip,
                 _read_long(PyFrom(src, skip), Len(src) - skip))
  ELSE IF self.schema.fields[i].type = "string"
  THEN FieldRead(self, src, i, encoded, skip,
                 _read_bytes(PyFrom(src, skip), Len(src) - skip))
  ELSE [exc |-> ParsingFailure, msg |-> "Unsupported data type in schema",
        encoded |-> encoded, skip |-> skip]

\* _parse_single_record(source): [exc, msg, encoded, skip]
_parse_single_record(self, src) ==
  IF ~self.schema.hasFields
  THEN [exc |-> KeyError, msg |-> "fields", encoded |-> <<>>, skip |-> 0]
  ELSE RecordFields(self, src, 1, <<>>, 0)

RECURSIVE BlockRecords(_, _, _, _, _)
\* lines 293-296: a record has been parsed as rec
RecordParsed(self, inflated, obj_count, infused, reencoded, rec) ==
  IF rec.exc # NoExc
  THEN [exc |-> rec.exc, msg |-> rec.msg, reencoded |-> reencoded]
  ELSE BlockRecords(self, inflated, obj_count - 1, infused + rec.skip,
                    reencoded \o rec.encoded)

\* lines 291-296: while obj_count > 0; [exc, msg, reencoded]
BlockRecords(self, inflated, obj_count, infused, reencoded) ==
  IF obj_count <= 0 THEN [exc |-> NoExc, msg |-> "", reencoded |-> reencoded]
  ELSE RecordParsed(self, inflated, obj_count, infused, reencoded,
                    _parse_single_record(self, PyFrom(inflated, infused)))

\* a variant of line 312: the checksum of the recompressed records
ChecksumOfCompressed(reencoded) == crc32(snappy_compress(reencoded))

\* line 312: the checksum of a block's re-encoded records
BlockChecksum(reencoded) == crc32(reencoded)

\* line 318: self.saved += self._parse_sync_marker(); return self.saved
SyncAppended(block, self) ==
  IF self.exc # NoExc THEN self
  ELSE [self EXCEPT !.saved = block \o self.ret, !.ret = block \o self.ret]

\* lines 318-319
BlockFramed(self) == SyncAppended(self.saved, _parse_sync_marker(self))

\* a variant of lines 298-319: line 300 without the 4 bytes of the checksum
EmitBlockShortLength(self, reencoded) ==
  BlockFramed(
    [self EXCEPT
       !.saved = @ \o _encode_long(Len(snappy_compress(reencoded)))
                   \o snappy_compress(reencoded)
                   \o pack_I(self.order, BlockChecksum(reencoded)),
       !.buffered = PyFrom(self.buffered, self.bused),
       !.blen = @ - self.bused])

\* lines 298-319, for the snappy codec: recompress, frame, consume the block
\* and its sync marker
EmitBlock(self, reencoded) ==
  BlockFramed(
    [self EXCEPT
       !.saved = @ \o _encode_long(Len(snappy_compress(reencoded)) + CsumLen)
                   \o snappy_compress(reencoded)
                   \o pack_I(self.order, BlockChecksum(reencoded)),
       !.buffered = PyFrom(self.buffered, self.bused),
       !.blen = @ - self.bused])

\* lines 291-319: the records have been re-encoded as recs
RecordsRead(self, recs) ==
  IF recs.exc # NoExc THEN Raise(self, recs.exc, recs.msg)
  ELSE EmitBlock(self, recs.reencoded)

\* lines 279-319: snappy.decompress has ended as inflated
Inflated(self, obj_count, block_size, inflated) ==
  IF inflated.exc # NoExc THEN Raise(self, inflated.exc, "")
  ELSE RecordsRead([self EXCEPT !.bused = @ + block_size],
                   BlockRecords(self, inflated.val, obj_count, 0, <<>>))

\* line 274: the block and its sync marker are not buffered yet
BlockIncomplete(self, block_size) ==
  self.blen < self.bused + block_size + SyncLen

\* a variant of lines 274-319: line 277 takes every codec for snappy
BlockBodyAnyCodec(self, obj_count, block_size) ==
  IF BlockIncomplete(self, block_size) THEN Raise(self, InsufficientData, "")
  ELSE Inflated(self, obj_count, block_size,
                snappy_decompress(PySlice(self.buffered, self.bused,
                                          self.bused + block_size - CsumLen)))

\* lines 274-319
BlockBody(self, obj_count, block_size) ==
  IF BlockIncomplete(self, block_size) THEN Raise(self, InsufficientData, "")
  ELSE IF self.codec = SnappyName
  THEN Inflated(self, obj_count, block_size,
                snappy_decompress(
                  PySlice(self.buffered, self.bused,
                          self.bused + block_size - CsumLen)))
  ELSE IF self.codec = DeflateName
  THEN Raise(self, ParsingFailure, "Unsupported codec")
  ELSE Raise(self, ParsingFailure, "Unknown codec")

\* lines 272-319
BlockSizeRead(self, obj_count, b) ==
  IF b.exc # NoExc THEN Raise(self, b.exc, "")
  ELSE BlockBody([self EXCEPT !.bused = @ + b.used], obj_count, b.val)

\* lines 270-319
BlockSizeAt(self, obj_count) ==
  BlockSizeRead(self, obj_count, ReadLongAtCursor(self))

\* lines 267-319
ObjCountRead(self, c) ==
  IF c.exc # NoExc THEN Raise(self, c.exc, "")
  ELSE BlockSizeAt([self EXCEPT !.saved = @ \o PySlice(self.buffered, 0, c.used),
                                !.bused = @ + c.used],
                   c.val)

\* lines 266-319
BlockAtStart(self) == ObjCountRead(self, _read_long(self.buffered, self.blen))

\* _parse_data_block
_parse_data_block(self) ==
  BlockAtStart([self EXCEPT !.saved = <<>>, !.bused = 0])

\* lines 325-336
NextItem(self) ==
  CASE self.state = AVRO_HEADER_MAGIC -> _parse_header_magic(self)
    [] self.state = AVRO_HEADER_FILE_METADATA -> _parse_file_metadata(self)
    [] self.state = AVRO_SYNC_MARKER -> _parse_sync_marker(self)
    [] self.state = AVRO_START_DATABLOCK -> _parse_data_block(self)
    [] OTHER -> Raise(self, ParsingFailure,
                      "Generic avro parser has reached an unexpected state?")

\* _parse_next_item: a new call, nothing raised or returned yet
_parse_next_item(self) ==
  NextItem([self EXCEPT !.exc = NoExc, !.msg = "", !.ret = <<>>])

(***************************************************************************)
(* The inputs: container files as a writer lays them out.  The writer's    *)
(* own encoders are used here, so that the files do not depend on the      *)
(* parser's operators.                                                     *)
(***************************************************************************)
\* a zig-zag integer of one byte, -64 <= v < 64
WLong(v) == <<IF v >= 0 THEN 2 * v ELSE -2 * v - 1>>
\* a length-prefixed byte string shorter than 64 bytes
WBytes(b) == WLong(Len(b)) \o b

RECURSIVE WFieldList(_, _)
\* the fields of a schema document, with or without spaces after , and :
WFieldList(fields, spaced) ==
  IF fields = <<>> THEN <<>>
  ELSE <<NameCode(fields[1].name), Colon>>
       \o (IF spaced THEN <<Space>> ELSE <<>>)
       \o <<FieldTypeCode(fields[1])>>
       \o (IF Len(fields) > 1
           THEN <<Comma>> \o (IF spaced THEN <<Space>> ELSE <<>>)
           ELSE <<>>)
       \o WFieldList(Tail(fields), spaced)

WSchema(fields, spaced) == LBracket \o WFieldList(fields, spaced) \o RBracket

\* magic, then a metadata map of one block with the codec and the schema
WHeader(codecname, schematext) ==
  HeaderMagic \o WLong(2) \o WBytes(AvroCodecKey) \o WBytes(codecname)
  \o WBytes(AvroSchemaKey) \o WBytes(schematext) \o WLong(0)

RECURSIVE WRecord(_, _, _)
\* a record's fields, but for those named in skip; a long or int value is an
\* integer, a string value a byte string, a float value its 4 bytes
WRecord(fields, rec, skip) ==
  IF fields = <<>> THEN <<>>
  ELSE (IF Head(fields).name \in skip THEN <<>>
        ELSE IF Head(fields).type \in {"long", "int"} THEN WLong(Head(rec))
        ELSE IF Head(fields).type = "string" THEN WBytes(Head(rec))
        ELSE Head(rec))
       \o WRecord(Tail(fields), Tail(rec), skip)

RECURSIVE WRecords(_, _, _)
WRecords(fields, recs, skip) ==
  IF recs = <<>> THEN <<>>
  ELSE WRecord(fields, Head(recs), skip) \o WRecords(fields, Tail(recs), skip)

\* a snappy payload of one literal, and one cut into two literals (which
\* decompresses to the same bytes)
WSnappy(data) ==
  IF data = <<>> THEN <<0>> ELSE <<Len(data), (Len(data) - 1) * 4>> \o data
WSnappySplit(data) ==
  <<Len(data), 0, data[1], (Len(data) - 2) * 4>> \o Tail(data)

\* a data block: count, length, payload, checksum footer, sync marker
WBlock(count, payload, csum, marker) ==
  WLong(count) \o WLong(Len(payload) + CsumLen) \o payload \o csum \o marker

\* a block as the Avro specification frames it for the snappy codec: the
\* big-endian CRC-32 of the uncompressed records follows the payload
WSnappyBlock(fields, recs, marker) ==
  WBlock(Len(recs), WSnappy(WRecords(fields, recs, {})),
         pack_I("big", crc32(WRecords(fields, recs, {}))), marker)

\* the file's sync marker, and one that differs from it
Marker == <<200, 201, 202, 203, 204, 205, 206, 207,
            208, 209, 210, 211, 212, 213, 214, 215>>
\* an empty block (count 0, length 5, payload "\x00", a footer) and then
\* the first 9 bytes of the marker: 16 bytes that are not the marker
MarkerWithBlock == <<0, 10, 0, 0, 0, 0, 0>> \o SubSeq(Marker, 1, 9)

FieldsAB == <<Field("a", "long"), Field("b", "string")>>
FieldsA == <<Field("a", "int")>>
FieldsF == <<Field("a", "float")>>
FieldsBF == <<Field("b", "string"), Field("a", "float")>>
\* {"name": "a", "type": "long"}, as Avro schemas usually write a primitive type
FieldsPlain == <<PlainField("a", "long")>>
\* {a: 5, b: "hi"}, {a: -3, b: "ok"}
RecordsAB == <<<<5, <<104, 105>>>>, <<-3, <<111, 107>>>>>>
RecordsA == <<<<7>>>>
RecordsF == <<<<<<0, 0, 128, 63>>>>>>

\* the scenario of the specification: snappy, fields a and b, two records
FileAB ==
  WHeader(SnappyName, WSchema(FieldsAB, FALSE)) \o Marker
  \o WSnappyBlock(FieldsAB, RecordsAB, Marker)
\* a schema written with spaces, a block of one record and an empty block
FileA ==
  WHeader(SnappyName, WSchema(FieldsA, TRUE)) \o Marker
  \o WSnappyBlock(FieldsA, RecordsA, Marker)
  \o WSnappyBlock(FieldsA, <<>>, Marker)
\* the payload cut into two literals
FileSplit ==
  WHeader(SnappyName, WSchema(FieldsAB, TRUE)) \o Marker
  \o WBlock(2, WSnappySplit(WRecords(FieldsAB, RecordsAB, {})),
            pack_I("big", crc32(WRecords(FieldsAB, RecordsAB, {}))), Marker)
\* a float field: an empty block, then a block of one record
FileFloat ==
  WHeader(SnappyName, WSchema(FieldsF, TRUE)) \o Marker
  \o WSnappyBlock(FieldsF, <<>>, Marker)
  \o WSnappyBlock(FieldsF, RecordsF, Marker)
\* a string field whose length prefix runs past the payload, then a float
FileShortString ==
  WHeader(SnappyName, WSchema(FieldsBF, TRUE)) \o Marker
  \o WBlock(1, WSnappy(<<16, 104, 105>>), <<0, 0, 0, 0>>, Marker)
\* three records announced, two in the payload
FileShortBlock ==
  WHeader(SnappyName, WSchema(FieldsAB, TRUE)) \o Marker
  \o WBlock(3, WSnappy(WRecords(FieldsAB, RecordsAB, {})), <<0, 0, 0, 0>>, Marker)
FileDeflate ==
  WHeader(DeflateName, WSchema(FieldsA, TRUE)) \o Marker
  \o WBlock(1, <<14>>, <<0, 0, 0, 0>>, Marker)
FileNull ==
  WHeader(NullName, WSchema(FieldsA, TRUE)) \o Marker
  \o WBlock(1, <<14>>, <<>>, Marker)
\* no avro.codec entry in the metadata
FileNoCodec ==
  HeaderMagic \o WLong(1) \o WBytes(AvroSchemaKey)
  \o WBytes(WSchema(FieldsA, TRUE)) \o WLong(0) \o Marker
  \o WSnappyBlock(FieldsA, RecordsA, Marker)
\* the block is followed by 16 bytes that are not the marker
FileBadSync ==
  WHeader(SnappyName, WSchema(FieldsA, TRUE)) \o Marker
  \o WSnappyBlock(FieldsA, RecordsA, MarkerWithBlock)
  \o SubSeq(Marker, 10, 16)
\* a block of no records whose length prefix decodes to -20
FileNegativeLength ==
  WHeader(SnappyName, WSchema(FieldsA, TRUE)) \o Marker
  \o <<0, 39, 0>> \o <<9, 9, 9, 9>> \o Marker \o <<0, 0>>
\* a valid file whose schema gives the type as a plain string
FilePlainType ==
  WHeader(SnappyName, WSchema(FieldsPlain, TRUE)) \o Marker
  \o WSnappyBlock(FieldsPlain, RecordsA, Marker)
FileBadMagic == <<79, 98, 120, 1, 2, 0, 0, 0>>
\* a payload that is no snappy stream
FileBadSnappy ==
  WHeader(SnappyName, WSchema(FieldsA, TRUE)) \o Marker
  \o WBlock(1, <<1, 7>>, <<0, 0, 0, 0>>, Marker)
\* a schema document that is not well formed
FileBadJson ==
  WHeader(SnappyName, LBracket \o <<97, 58>>) \o Marker
\* a schema object without a 'fields' key
FileNoFields ==
  WHeader(SnappyName, EmptyObject) \o Marker
  \o WBlock(1, WSnappy(<<14>>), <<0, 0, 0, 0>>, Marker)

\* a metadata map with two avro.codec entries, deflate and then snappy
FileTwoCodecs ==
  HeaderMagic \o WLong(3) \o WBytes(AvroCodecKey) \o WBytes(DeflateName)
  \o WBytes(AvroCodecKey) \o WBytes(SnappyName)
  \o WBytes(AvroSchemaKey) \o WBytes(WSchema(FieldsA, TRUE)) \o WLong(0)
  \o Marker \o WSnappyBlock(FieldsA, RecordsA, Marker)

Base == "GenericStreamingAvroParser"
Stripping == "GenericStrippingAvroParser"

\* a scenario: the bytes the caller and the source hand over in total, the
\* parser constructed, the byte order of the machine it runs on and, for a
\* file that is a valid container of the snappy codec whose fields are of
\* the types the parser reads (valid), what the file holds
Scn(file, class, strip, endian, valid, fields, blocks) ==
  [file |-> file, cls |-> class, tostrip |-> strip, order |-> endian,
   valid |-> valid, fields |-> fields, blocks |-> blocks]
Invalid(file) == Scn(file, Base, {}, "little", FALSE, <<>>, <<>>)

\* the lengths at which FileAB is cut short: inside the magic, the metadata,
\* the first sync marker, the block and the block's sync marker
Truncations == <<2, 20, 50, 70, Len(FileAB) - 3>>

Scenarios ==
  << Scn(FileAB, Base, {}, "little", TRUE, FieldsAB, <<RecordsAB>>),
     Scn(FileAB, Stripping, {"b"}, "little", TRUE, FieldsAB, <<RecordsAB>>),
     Scn(FileAB, Stripping, {"a", "c"}, "big", TRUE, FieldsAB, <<RecordsAB>>),
     Scn(FileA, Base, {}, "big", TRUE, FieldsA, <<RecordsA, <<>>>>),
     Scn(FileA, Stripping, {"a"}, "little", TRUE, FieldsA, <<RecordsA, <<>>>>),
     Scn(FileSplit, Base, {}, "big", TRUE, FieldsAB, <<RecordsAB>>),
     Invalid(FilePlainType),
     Invalid(FileFloat),
     Invalid(FileShortString),
     Invalid(FileShortBlock),
     Invalid(FileDeflate),
     Invalid(FileNull),
     Invalid(FileNoCodec),
     Invalid(FileBadSync),
     Invalid(FileNegativeLength),
     Invalid(FileBadMagic),
     Invalid(FileBadSnappy),
     Invalid(FileBadJson),
     Invalid(FileNoFields) >>
  \o [i \in 1..Len(Truncations) |->
        Invalid(SubSeq(FileAB, 1, Truncations[i]))]
  \o << Invalid(FileTwoCodecs) >>

(***************************************************************************)
(* The state machine.                                                      *)
(***************************************************************************)
\* the empty chunks the source may yield, and the calls of next() the
\* caller makes after a call has raised
MaxEmptyChunks == 1
MaxCallsAfterEnd == 2

\* no pass of the while loop of line 181 has begun
NoMark == [bused |-> 0, blockcount |-> 0]

\* the object as the operators above take it
Self ==
  [cls |-> cls, tostrip |-> tostrip, order |-> order, buffered |-> buffered,
   blen |-> blen, bused |-> bused, schema |-> schema, codec |-> codec,
   state |-> state, syncmarker |-> syncmarker, saved |-> saved,
   exc |-> NoExc, msg |-> "", ret |-> <<>>]

\* __init__(source, initbody), and GenericStrippingAvroParser.__init__
Init ==
  /\ scn \in 1..Len(Scenarios)
  /\ order = Scenarios[scn].order
  /\ cls = Scenarios[scn].cls
  /\ tostrip = Scenarios[scn].tostrip
  /\ \E k \in 0..Len(Scenarios[scn].file) :
       /\ buffered = SubSeq(Scenarios[scn].file, 1, k)
       /\ blen = k
       /\ source = SubSeq(Scenarios[scn].file, k + 1, Len(Scenarios[scn].file))
  /\ ended = FALSE
  /\ empties = 0
  /\ bused = 0
  /\ schema = [hasFields |-> FALSE, fields |-> <<>>]
  /\ codec = NoneVal
  /\ state = AVRO_HEADER_MAGIC
  /\ syncmarker = NoneVal
  /\ saved = <<>>
  /\ pc = "idle"
  /\ result = "none"
  /\ msg = ""
  /\ out = <<>>
  /\ after = 0
  /\ given = WideZero
  /\ written = <<>>
  /\ readback = Unread
  /\ blockcount = 0
  /\ todo = 0
  /\ passes = 0
  /\ mark = NoMark

\* a call of next() has raised
Raised == result \notin {"none", "chunk"}

\* lines 340-345: the parse attempt has ended as s
Attempted(s) ==
  /\ buffered' = s.buffered
  /\ blen' = s.blen
  /\ bused' = s.bused
  /\ schema' = s.schema
  /\ codec' = s.codec
  /\ state' = s.state
  /\ syncmarker' = s.syncmarker
  /\ saved' = s.saved
  /\ IF s.exc = NoExc
     THEN /\ pc' = "idle"
          /\ result' = "chunk"
          /\ msg' = ""
          /\ out' = Append(out, s.ret)
     ELSE IF s.exc = InsufficientData
     THEN /\ pc' = "pull"
          /\ UNCHANGED <<result, msg, out>>
     ELSE /\ pc' = "idle"
          /\ result' = s.exc
          /\ msg' = s.msg
          /\ out' = out
  /\ UNCHANGED <<scn, order, cls, tostrip, source, ended, empties>>
  /\ UNCHANGED codecvars
  /\ UNCHANGED loopvars

\* lines 340-345: one parse attempt and what next() does with its outcome
Attempt == Attempted(_parse_next_item(Self))

\* the caller calls next()
NextCall ==
  /\ pc = "idle"
  /\ Raised => after < MaxCallsAfterEnd
  /\ after' = IF Raised THEN after + 1 ELSE after
  /\ Attempt

\* line 354: return self.next()
Retry ==
  /\ pc = "retry"
  /\ after' = after
  /\ Attempt

\* a variant of lines 348-350: the chunk is put in front of the buffer
PullChunkInFront ==
  /\ pc = "pull"
  /\ ~ended
  /\ \E n \in 1..Len(source) :
       /\ buffered' = SubSeq(source, 1, n) \o buffered
       /\ blen' = blen + n
       /\ source' = SubSeq(source, n + 1, Len(source))
  /\ pc' = "retry"
  /\ UNCHANGED <<scn, order, cls, tostrip, ended, empties, bused, schema,
                 codec, state, syncmarker, saved, result, msg, out, after>>
  /\ UNCHANGED codecvars
  /\ UNCHANGED loopvars

\* lines 348-350: the source yields a chunk of n bytes
PullChunk ==
  /\ pc = "pull"
  /\ ~ended
  /\ \E n \in 1..Len(source) :
       /\ buffered' = buffered \o SubSeq(source, 1, n)
       /\ blen' = blen + n
       /\ source' = SubSeq(source, n + 1, Len(source))
  /\ pc' = "retry"
  /\ UNCHANGED <<scn, order, cls, tostrip, ended, empties, bused, schema,
                 codec, state, syncmarker, saved, result, msg, out, after>>
  /\ UNCHANGED codecvars
  /\ UNCHANGED loopvars

\* lines 348-350: the source yields an empty chunk
PullEmpty ==
  /\ pc = "pull"
  /\ ~ended
  /\ empties < MaxEmptyChunks
  /\ empties' = empties + 1
  /\ pc' = "retry"
  /\ UNCHANGED <<scn, order, cls, tostrip, source, ended, buffered, blen,
                 bused, schema, codec, state, syncmarker, saved, result, msg,
                 out, after>>
  /\ UNCHANGED codecvars
  /\ UNCHANGED loopvars

\* lines 351-352: the source is exhausted, StopIteration leaves next()
PullStop ==
  /\ pc = "pull"
  /\ source = <<>>
  /\ ended' = TRUE
  /\ pc' = "idle"
  /\ result' = "StopIteration"
  /\ msg' = ""
  /\ UNCHANGED <<scn, order, cls, tostrip, source, empties, buffered, blen,
                 bused, schema, codec, state, syncmarker, saved, out, after>>
  /\ UNCHANGED codecvars
  /\ UNCHANGED loopvars

Next == NextCall \/ Retry \/ PullChunk \/ PullEmpty \/ PullStop

Spec == Init /\ [][Next]_vars

(***************************************************************************)
(* The integer codec on its own: _encode_long of a value, then _read_long  *)
(* of the bytes it returned.                                               *)
(***************************************************************************)
\* 2^k as digits
PowerOfTwo(k) ==
  [i \in 1..(k \div 7) |-> 0] \o <<2 ^ (k % 7)>>

\* the values tried: 0, and on either side of it the powers of two and
\* their predecessors, down to -2^63 and up to 2^63 - 1
WideValues ==
  {Wide(neg, PowerOfTwo(k)) : neg \in BOOLEAN, k \in 0..(LongBits - 1)}
  \cup {Wide(neg, Normal(Decrement(PowerOfTwo(k)))) :
          neg \in BOOLEAN, k \in 1..(LongBits - 1)}
  \cup {WideZero, Wide(TRUE, PowerOfTwo(LongBits)),
         Wide(FALSE, Normal(Decrement(PowerOfTwo(LongBits))))}

\* the parser plays no part in these runs
CodecInit ==
  /\ scn = 1
  /\ order = Scenarios[scn].order
  /\ cls = Scenarios[scn].cls
  /\ tostrip = Scenarios[scn].tostrip
  /\ buffered = <<>>
  /\ blen = 0
  /\ source = <<>>
  /\ ended = FALSE
  /\ empties = 0
  /\ bused = 0
  /\ schema = [hasFields |-> FALSE, fields |-> <<>>]
  /\ codec = NoneVal
  /\ state = AVRO_HEADER_MAGIC
  /\ syncmarker = NoneVal
  /\ saved = <<>>
  /\ pc = "idle"
  /\ result = "none"
  /\ msg = ""
  /\ out = <<>>
  /\ after = 0
  /\ given \in WideValues
  /\ written = <<>>
  /\ readback = Unread
  /\ blockcount = 0
  /\ todo = 0
  /\ passes = 0
  /\ mark = NoMark

\* written = self._encode_long(given)
EncodeLong ==
  /\ written = <<>>
  /\ written' = WideEncodeLong(given)
  /\ UNCHANGED <<scn, order, cls, tostrip, source, ended, empties, buffered,
                 blen, bused, schema, codec, state, syncmarker, saved, pc,
                 result, msg, out, after, given, readback>>
  /\ UNCHANGED loopvars

\* readback = self._read_long(written, len(written))
ReadLong ==
  /\ written # <<>>
  /\ readback = Unread
  /\ readback' = WideReadLong(written, Len(written))
  /\ UNCHANGED <<scn, order, cls, tostrip, source, ended, empties, buffered,
                 blen, bused, schema, codec, state, syncmarker, saved, pc,
                 result, msg, out, after, given, written>>
  /\ UNCHANGED loopvars

CodecNext == EncodeLong \/ ReadLong

CodecSpec == CodecInit /\ [][CodecNext]_vars

(***************************************************************************)
(* _parse_file_metadata pass by pass: one call of next() made once the     *)
(* magic has been returned, with all that is left of the input in the      *)
(* buffer and nothing left in the source.  The buffer does not change      *)
(* before line 204, so a pass of the while loop of line 181 is determined  *)
(* by self.bused and block_count as it begins.                             *)
(***************************************************************************)
\* the passes of the while loop followed in one call
MaxPasses == 3

\* the bytes, and the number of them, of the short inputs
MetaBytes == {0, 1, 2, 5}
MaxMetaLen == 3

\* what follows the magic: of the files of the scenarios that begin with
\* it, and every short sequence of bytes
MetadataInputs(j) ==
  (IF PySlice(Scenarios[j].file, 0, MagicLen) = HeaderMagic
   THEN {PyFrom(Scenarios[j].file, MagicLen)} ELSE {})
  \cup UNION {[1..n -> MetaBytes] : n \in 1..MaxMetaLen}

\* the parser after the call of next() that returned the magic
MetadataInit ==
  /\ scn \in 1..Len(Scenarios)
  /\ order = Scenarios[scn].order
  /\ cls = Scenarios[scn].cls
  /\ tostrip = Scenarios[scn].tostrip
  /\ buffered \in MetadataInputs(scn)
  /\ blen = Len(buffered)
  /\ source = <<>>
  /\ ended = FALSE
  /\ empties = 0
  /\ bused = 0
  /\ schema = [hasFields |-> FALSE, fields |-> <<>>]
  /\ codec = NoneVal
  /\ state = AVRO_HEADER_FILE_METADATA
  /\ syncmarker = NoneVal
  /\ saved = <<>>
  /\ pc = "idle"
  /\ result = "chunk"
  /\ msg = ""
  /\ out = <<HeaderMagic>>
  /\ after = 0
  /\ given = WideZero
  /\ written = <<>>
  /\ readback = Unread
  /\ blockcount = 0
  /\ todo = 0
  /\ passes = 0
  /\ mark = NoMark

\* statements of _parse_file_metadata have left the object as s: the call
\* goes on at the place given, or the exception of s leaves
\* _parse_file_metadata and next() handles it (lines 342-345)
Stepped(s, place) ==
  /\ bused' = s.bused
  /\ saved' = s.saved
  /\ schema' = s.schema
  /\ codec' = s.codec
  /\ IF s.exc = NoExc
     THEN /\ pc' = place
          /\ UNCHANGED <<result, msg>>
     ELSE IF s.exc = InsufficientData
     THEN /\ pc' = "pull"
          /\ UNCHANGED <<result, msg>>
     ELSE /\ pc' = "idle"
          /\ result' = s.exc
          /\ msg' = s.msg
  /\ UNCHANGED <<scn, order, cls, tostrip, source, ended, empties, buffered,
                 blen, state, syncmarker, out, after>>
  /\ UNCHANGED codecvars

\* lines 174-179: next() calls _parse_file_metadata, which reads the first
\* block_count
MetadataCall ==
  /\ pc = "idle"
  /\ state = AVRO_HEADER_FILE_METADATA
  /\ ~Raised
  /\ blockcount' = _read_long(buffered, blen).val
  /\ Stepped(SaveRead([Self EXCEPT !.saved = <<>>, !.bused = 0],
                      _read_long(buffered, blen)),
             "while")
  /\ passes' = 0
  /\ mark' = NoMark
  /\ todo' = 0

\* lines 181-182: block_count != 0, a pass of the while loop begins
WhilePass ==
  /\ pc = "while"
  /\ blockcount # 0
  /\ passes < MaxPasses
  /\ passes' = passes + 1
  /\ mark' = [bused |-> bused, blockcount |-> blockcount]
  /\ todo' = IF blockcount > 0 THEN blockcount ELSE 0
  /\ pc' = "for"
  /\ UNCHANGED <<scn, order, cls, tostrip, source, ended, empties, buffered,
                 blen, bused, schema, codec, state, syncmarker, saved, result,
                 msg, out, after, blockcount>>
  /\ UNCHANGED codecvars

\* lines 183-197: the for loop reads one key/value pair
ForEntry ==
  /\ pc = "for"
  /\ todo > 0
  /\ todo' = todo - 1
  /\ Stepped(MetadataEntry(Self), "for")
  /\ UNCHANGED <<blockcount, passes, mark>>

\* lines 199-202: the for loop is over, the next block_count is read
ForEnd ==
  /\ pc = "for"
  /\ todo = 0
  /\ blockcount' = ReadLongAtCursor(Self).val
  /\ Stepped(SaveRead(Self, ReadLongAtCursor(Self)), "while")
  /\ UNCHANGED <<todo, passes, mark>>

\* lines 204-208 and 345: block_count == 0, next() returns self.saved
MetadataReturn ==
  /\ pc = "while"
  /\ blockcount = 0
  /\ Attempted(MetadataDone(Self))
  /\ after' = after

MetadataNext ==
  MetadataCall \/ WhilePass \/ ForEntry \/ ForEnd \/ MetadataReturn
  \/ PullStop

MetadataSpec == MetadataInit /\ [][MetadataNext]_vars

(***************************************************************************)
(* What the runs are measured against.                                     *)
(***************************************************************************)
\* the scenario of the run
Scenario == Scenarios[scn]

\* a call of next() has raised for the first time, and no call followed
FirstRaise == Raised /\ pc = "idle" /\ after = 0

\* the sync marker error
SyncMismatch == "Sync Marker does not match marker in header"

\* the fields of a schema that a set of names leaves
Kept(fields, names) == SelectSeq(fields, LAMBDA f : f.name \notin names)

\* the parts of an emitted data block whose record count and length take one
\* byte each: the count, the compressed payload, the 4 bytes after it, and
\* the 16 bytes that end it
ChunkCount(chunk) == chunk[1]
ChunkPayload(chunk) == SubSeq(chunk, 3, Len(chunk) - SyncLen - CsumLen)
ChunkChecksum(chunk) ==
  SubSeq(chunk, Len(chunk) - SyncLen - CsumLen + 1, Len(chunk) - SyncLen)
ChunkMarker(chunk) == SubSeq(chunk, Len(chunk) - SyncLen + 1, Len(chunk))

\* the records of the j-th block of the scenario's file as the run's parser
\* is to re-encode them: without the fields it strips
ExpectedRecords(j) ==
  WRecords(Scenario.fields, Scenario.blocks[j],
           IF cls = Stripping THEN tostrip ELSE {})

\* the metadata of the scenario's file with the schema the run's parser is
\* to write, as json.dumps spaces it
ExpectedMetadata ==
  WLong(2) \o WBytes(AvroCodecKey) \o WBytes(SnappyName)
  \o WBytes(AvroSchemaKey)
  \o WBytes(WSchema(Kept(Scenario.fields,
                         IF cls = Stripping THEN tostrip ELSE {}), TRUE))
  \o WLong(0)

RECURSIVE Drive(_, _)
\* a parse attempt of Drive has ended as s
Driven(s, chunks) ==
  IF s.exc = NoExc THEN Drive(s, Append(chunks, s.ret))
  ELSE [out |-> chunks,
        result |-> IF s.exc = InsufficientData THEN "StopIteration" ELSE s.exc]

\* next() called until a call raises, on a parser whose source yields
\* nothing: the chunks returned and the exception that ended the run
Drive(self, chunks) == Driven(_parse_next_item(self), chunks)

\* the run of a scenario whose bytes are all handed over at once
OneChunk(i) ==
  Drive([cls |-> Scenarios[i].cls, tostrip |-> Scenarios[i].tostrip,
         order |-> Scenarios[i].order, buffered |-> Scenarios[i].file,
         blen |-> Len(Scenarios[i].file), bused |-> 0,
         schema |-> [hasFields |-> FALSE, fields |-> <<>>],
         codec |-> NoneVal, state |-> AVRO_HEADER_MAGIC,
         syncmarker |-> NoneVal, saved |-> <<>>,
         exc |-> NoExc, msg |-> "", ret |-> <<>>],
        <<>>)

(***************************************************************************)
(* Claims.                                                                 *)
(***************************************************************************)
\* C1: incremental equivalence.  However the bytes of a file are split
\* between initbody and the chunks of the source, the calls of next() up to
\* the first that raises return the chunks, and end with the outcome, of the
\* run that is handed all the bytes at once.
C1_IncrementalEquivalence ==
  FirstRaise => /\ out = OneChunk(scn).out
                /\ result = OneChunk(scn).result

\* C2: sync-marker consistency.  Once a call of next() has failed with the
\* sync marker error, no later call returns a chunk.
C2_NoOutputAfterSyncMismatch ==
  [][(result = ParsingFailure /\ msg = SyncMismatch) => out' = out]_vars

\* C3: end-of-source truncation is fatal.  next() ends the iteration
\* (StopIteration) only between data blocks: in the data block state with an
\* empty buffer.
C3_CleanEndOnlyBetweenBlocks ==
  result = "StopIteration" =>
    /\ state = AVRO_START_DATABLOCK
    /\ blen = 0
    /\ buffered = <<>>

\* C4: round-trip identity.  For the base parser and a valid file, the
\* chunks returned up to the clean end are, joined, the file.
C4_RoundTripIdentity ==
  (Scenario.valid /\ cls = Base /\ result = "StopIteration")
    => Concat(out) = Scenario.file

\* C5: field removal.  For the stripping parser and a valid file, the
\* metadata chunk carries the schema with exactly the fields that are not
\* stripped, in their order, and the payload of every block returned holds,
\* record by record, the encodings of exactly those fields.
C5_FieldRemoval ==
  (Scenario.valid /\ cls = Stripping) =>
    /\ Len(out) >= 2 => out[2] = ExpectedMetadata
    /\ \A j \in 1..Len(Scenario.blocks) :
         Len(out) >= 3 + j =>
           /\ ChunkCount(out[3 + j]) = ZigZag(Len(Scenario.blocks[j]))
           /\ snappy_decompress(ChunkPayload(out[3 + j])) =
                [exc |-> NoExc, val |-> ExpectedRecords(j)]

\* a block of two records has been returned without its field b
C5_Witness ==
  /\ cls = Stripping
  /\ tostrip = {"b"}
  /\ Len(out) = 4
  /\ Len(ExpectedRecords(1)) < Len(WRecords(Scenario.fields,
                                            Scenario.blocks[1], {}))

\* the schema of the parser has a field that no record decoder reads
UnsupportedField ==
  /\ schema.hasFields
  /\ \E i \in 1..Len(schema.fields) :
       /\ schema.fields[i].nested
       /\ schema.fields[i].type \notin {"long", "int", "string"}

\* the messages of the failures of a block whose codec or field type is not
\* supported
UnsupportedMessages ==
  {"Unsupported data type in schema", "Unsupported codec", "Unknown codec"}

LibraryExceptions ==
  {UncompressError, ValueError, KeyError, TypeError, IndexError}

\* C7 as stated: a call of next() ends with a chunk, with the parsing
\* failure or with the end of the iteration.
C7_ThreeOutcomes ==
  result \in {"none", "chunk", ParsingFailure, "StopIteration"}

\* C7 as the code has it: a call of next() ends with a chunk, with the
\* parsing failure, with the end of the iteration or with the exception of
\* a library call; it never ends with the insufficient data exception.
C7_InsufficientDataNeverEscapes ==
  /\ result # InsufficientData
  /\ result \in {"none", "chunk", ParsingFailure, "StopIteration"}
                  \cup LibraryExceptions

\* a call has met insufficient data, pulled an empty chunk and more, and
\* ended with the exception of snappy
C7_Witness ==
  /\ empties = 1
  /\ pc = "idle"
  /\ result = UncompressError

\* C8: state monotonicity.  A step leaves the state or moves it one phase
\* forward; it moves exactly when a chunk is returned before the data block
\* state, and a chunk returned in the data block state leaves it there; the
\* chunks are the magic, the metadata, the sync marker, then blocks that
\* each end with the sync marker.
C8_StateMonotonicity ==
  [][/\ state' \in {state, state + 1}
     /\ state' <= AVRO_START_DATABLOCK
     /\ Len(out') \in {Len(out), Len(out) + 1}
     /\ Len(out') = Len(out) + 1 =>
          /\ SubSeq(out', 1, Len(out)) = out
          /\ state' = Min(state + 1, AVRO_START_DATABLOCK)
     /\ Len(out') = Len(out) => state' = state
     /\ state' = Min(Len(out') + 1, AVRO_START_DATABLOCK)
     /\ Len(out') >= 1 => out'[1] = HeaderMagic
     /\ Len(out') >= 3 => out'[3] = syncmarker' /\ Len(out'[3]) = SyncLen
     /\ \A j \in 4..Len(out') : ChunkMarker(out'[j]) = syncmarker'
    ]_vars

\* the header and two data blocks have been returned
C8_Witness ==
  /\ Len(out) = 5
  /\ state = AVRO_START_DATABLOCK
  /\ result = "chunk"

\* four or more bytes are buffered before the magic is read, and they are
\* not the magic
BadMagicBuffered ==
  /\ state = AVRO_HEADER_MAGIC
  /\ blen >= MagicLen
  /\ SubSeq(buffered, 1, MagicLen) # HeaderMagic

\* C9: bad magic is fatal and sticky.  A parse attempt with four or more
\* buffered bytes that are not the magic raises the parsing failure and
\* leaves the buffer, the state and the source as they are; so does every
\* later call, and no chunk is ever returned.
C9_BadMagicSticky ==
  [][(BadMagicBuffered /\ pc \in {"idle", "retry"}) =>
       /\ result' = ParsingFailure
       /\ msg' = "Invalid Header Magic"
       /\ pc' = "idle"
       /\ buffered' = buffered
       /\ blen' = blen
       /\ state' = AVRO_HEADER_MAGIC
       /\ source' = source
       /\ ended' = ended
       /\ out' = <<>>
       /\ BadMagicBuffered'
    ]_vars

\* the calls after the first failure on a bad magic have failed again
C9_Witness ==
  /\ BadMagicBuffered
  /\ result = ParsingFailure
  /\ after = MaxCallsAfterEnd
  /\ out = <<>>

\* the 4 bytes that follow the payload of the j-th block of the scenario's
\* file
OriginalChecksum(j) ==
  pack_I("big", crc32(WRecords(Scenario.fields, Scenario.blocks[j], {})))

\* C10: checksum recomputation.  The 4 bytes after the payload of every
\* block returned are the CRC-32, as an unsigned integer in the byte order
\* of the machine, of the re-encoded records that the payload compresses;
\* for a valid file these are the records without the stripped fields.
C10_ChecksumOfReencoded ==
  \A j \in 4..Len(out) :
    /\ snappy_decompress(ChunkPayload(out[j])).exc = NoExc
    /\ ChunkChecksum(out[j]) =
         pack_I(order, crc32(snappy_decompress(ChunkPayload(out[j])).val))
    /\ (Scenario.valid /\ j - 3 <= Len(Scenario.blocks)) =>
         ChunkChecksum(out[j]) = pack_I(order, crc32(ExpectedRecords(j - 3)))

\* a block has been returned whose records differ from the original's, with
\* 4 bytes after the payload that are not the original's
C10_Witness ==
  /\ Scenario.valid
  /\ cls = Stripping
  /\ Len(out) >= 4
  /\ ExpectedRecords(1) # WRecords(Scenario.fields, Scenario.blocks[1], {})
  /\ ChunkChecksum(out[4]) # OriginalChecksum(1)

\* a data block as line 261-319 frame it: the bytes of the record count,
\* the length of what follows before the marker, the compressed records,
\* their checksum, the marker
Framed(count, records, endian, marker) ==
  count \o _encode_long(Len(snappy_compress(records)) + CsumLen)
  \o snappy_compress(records) \o pack_I(endian, crc32(records)) \o marker

\* C11: output block framing.  The chunk a data block step returns is the
\* bytes of the record count as they stand at the head of the buffer, the
\* length of the recompressed records plus 4, the recompressed records, the
\* 4 bytes of their checksum and the 16 bytes of the sync marker; for a
\* valid file the records are those of the block without stripped fields.
C11_BlockFraming ==
  [][(state = AVRO_START_DATABLOCK /\ Len(out') = Len(out) + 1) =>
       /\ out'[Len(out')] =
            Framed(SubSeq(buffered, 1, _read_long(buffered, blen).used),
                   snappy_decompress(ChunkPayload(out'[Len(out')])).val,
                   order, syncmarker)
       /\ (Scenario.valid /\ Len(out) - 2 <= Len(Scenario.blocks)) =>
            out'[Len(out')] =
              Framed(_encode_long(Len(Scenario.blocks[Len(out) - 2])),
                     ExpectedRecords(Len(out) - 2), order, Marker)
    ]_vars

\* a block has been returned that is shorter than the block read: its
\* length field is not the input's
C11_Witness ==
  /\ Scenario.valid
  /\ cls = Stripping
  /\ Len(out) = 4
  /\ Len(out[4]) < Len(WSnappyBlock(Scenario.fields, Scenario.blocks[1], Marker))
  /\ out[4][2] = ZigZag(Len(out[4]) - 2 - SyncLen)

RECURSIVE DigitsValue(_)
\* the number that digits stand for, when it is below 2^31
DigitsValue(d) == IF d = <<>> THEN 0 ELSE d[1] + 128 * DigitsValue(Tail(d))

\* the value of a [neg, mag] of at most 4 digits
WideValue(v) == IF v.neg THEN -DigitsValue(v.mag) ELSE DigitsValue(v.mag)

\* all bytes but the last have the top bit set, the last has not, and the
\* last is 0 only when it is the first
Canonical(bytes) ==
  /\ Len(bytes) >= 1
  /\ \A i \in 1..(Len(bytes) - 1) : bytes[i] >= 128
  /\ bytes[Len(bytes)] < 128
  /\ bytes[Len(bytes)] = 0 => Len(bytes) = 1

\* C12: varint codec round trip.  For a signed 64-bit value, _encode_long
\* returns at most 10 bytes in the canonical form, and _read_long of these
\* bytes returns the value and their number.  For the values below 2^28 in
\* magnitude the parser's own operators return the same.
C12_VarintRoundTrip ==
  /\ written # <<>> =>
       /\ Canonical(written)
       /\ Len(written) <= 10
       /\ Len(given.mag) <= 4 => written = _encode_long(WideValue(given))
  /\ readback # Unread =>
       /\ readback = [exc |-> NoExc, val |-> given, used |-> Len(written)]
       /\ Len(given.mag) <= 4 =>
            _read_long(written, Len(written)) =
              [exc |-> NoExc, val |-> WideValue(given), used |-> Len(written)]

\* -2^63 has been written in 10 bytes and read back
C12_Witness ==
  /\ given = Wide(TRUE, PowerOfTwo(LongBits))
  /\ Len(written) = 10
  /\ readback # Unread
  /\ readback.val = given

\* the records of the j-th block of the scenario's file as they were written
OriginalRecords(j) == WRecords(Scenario.fields, Scenario.blocks[j], {})

\* where the k-th record of the j-th block starts in OriginalRecords(j)
RecordOffset(j, k) ==
  Len(WRecords(Scenario.fields, SubSeq(Scenario.blocks[j], 1, k - 1), {}))

\* C13: records are decoded with the writer's fields.  Once the metadata
\* of a valid file is read, self.schema holds every field of the file in
\* order, stripped or not; decoding a record of a block consumes exactly
\* the bytes of the record as written, whatever is re-encoded of it; and
\* the record loop re-encodes every record of the block.
C13_DecodedWithOriginalSchema ==
  (Scenario.valid /\ state >= AVRO_SYNC_MARKER) =>
    /\ schema = [hasFields |-> TRUE, fields |-> Scenario.fields]
    /\ \A j \in 1..Len(Scenario.blocks) :
         /\ \A k \in 1..Len(Scenario.blocks[j]) :
              _parse_single_record(Self, PyFrom(OriginalRecords(j),
                                                RecordOffset(j, k))) =
                [exc |-> NoExc, msg |-> "",
                 encoded |-> WRecord(Scenario.fields, Scenario.blocks[j][k],
                                     IF cls = Stripping THEN tostrip ELSE {}),
                 skip |-> Len(WRecord(Scenario.fields,
                                      Scenario.blocks[j][k], {}))]
         /\ BlockRecords(Self, OriginalRecords(j), Len(Scenario.blocks[j]),
                         0, <<>>).reencoded = ExpectedRecords(j)

\* the stripping parser has returned a block of two records of a file
\* with two fields, and strips one of them
C13_Witness ==
  /\ Scenario.valid
  /\ cls = Stripping
  /\ Len(out) >= 4
  /\ Len(Scenario.blocks[1]) = 2
  /\ Len(Kept(schema.fields, tostrip)) < Len(schema.fields)

\* C14: buffer invariant.  self.blen is the length of self.buffered, and
\* the cursor self.bused is not negative.  (Between steps the cursor is
\* that of the step before, in the buffer as it was before the step cut its
\* item off: it is not compared with self.blen here.)
C14_BufferInvariant ==
  /\ 0 <= bused
  /\ blen = Len(buffered)

\* C15: retry preserves state.  A parse attempt that signals insufficient
\* data leaves self.buffered, self.blen, self.state and self.syncmarker as
\* they were; the chunk an attempt returns is the chunk of an attempt that
\* starts with the cursor at 0 and nothing saved, whatever a failed attempt
\* left there; and the chunks of a valid file, however it is split, are
\* those of the run that is handed the file at once.
C15_RetryPreservesState ==
  [][/\ (pc # "pull" /\ pc' = "pull") =>
          /\ buffered' = buffered
          /\ blen' = blen
          /\ state' = state
          /\ syncmarker' = syncmarker
          /\ out' = out
     /\ (pc = "retry" /\ Len(out') = Len(out) + 1) =>
          out'[Len(out')] =
            _parse_next_item([Self EXCEPT !.bused = 0, !.saved = <<>>]).ret
     /\ (Scenario.valid /\ FirstRaise') => out' = OneChunk(scn).out
    ]_vars

\* an attempt at the metadata has read part of it and signalled
\* insufficient data, and the source has yielded more
C15_Witness ==
  /\ state = AVRO_HEADER_FILE_METADATA
  /\ pc = "retry"
  /\ bused > 0
  /\ saved # <<>>

\* C16: the sync marker is captured once.  self.syncmarker is None until
\* the sync marker step, which sets it to the 16 bytes at the head of the
\* buffer and returns them; no step changes it afterwards; and every data
\* block returned ends with these 16 bytes.
C16_SyncMarkerCapturedOnce ==
  [][/\ syncmarker # NoneVal => syncmarker' = syncmarker
     /\ (syncmarker = NoneVal /\ syncmarker' # NoneVal) =>
          /\ state = AVRO_SYNC_MARKER
          /\ state' = AVRO_START_DATABLOCK
          /\ Len(buffered) >= SyncLen
          /\ syncmarker' = SubSeq(buffered, 1, SyncLen)
          /\ out' = Append(out, syncmarker')
     /\ (syncmarker' = NoneVal) = (state' <= AVRO_SYNC_MARKER)
     /\ Len(out') >= 3 => out'[3] = syncmarker'
     /\ \A j \in 4..Len(out') :
          /\ Len(out'[j]) >= SyncLen
          /\ ChunkMarker(out'[j]) = out'[3]
    ]_vars

\* the marker has been returned three times: on its own and at the end of
\* two data blocks
C16_Witness ==
  /\ syncmarker = Marker
  /\ Len(out) = 5
  /\ ChunkMarker(out[4]) = out[3]
  /\ ChunkMarker(out[5]) = out[3]

\* C17 as stated: the codec is assigned one time; once it has a value no
\* step gives it another.
C17_CodecAssignedOnce ==
  [][codec # NoneVal => codec' = codec]_vars

\* C17 as the code has it: only an attempt of the metadata step assigns
\* the codec, and it assigns it at every avro.codec entry it reads, on every
\* retry again; the last entry read is the codec of the blocks; no step
\* after the metadata phase changes it.
C17_CodecFromMetadata ==
  [][/\ codec' # codec => state = AVRO_HEADER_FILE_METADATA
     /\ state' = AVRO_HEADER_MAGIC => codec' = NoneVal
     /\ codec' \in {NoneVal, SnappyName, DeflateName, NullName}
     /\ (Scenario.valid /\ state' >= AVRO_SYNC_MARKER) => codec' = SnappyName
     /\ (Scenario.file = FileTwoCodecs /\ state' >= AVRO_SYNC_MARKER) =>
          codec' = SnappyName
     /\ (Scenario.file = FileNoCodec) => codec' = NoneVal
    ]_vars

\* an attempt at a metadata map with two codec entries has stopped after
\* the first, and the source has yielded more
C17_Witness ==
  /\ Scenario.file = FileTwoCodecs
  /\ state = AVRO_HEADER_FILE_METADATA
  /\ codec = DeflateName
  /\ pc = "retry"

\* C18: pull discipline.  The source is asked for a chunk only when a
\* parse attempt has signalled insufficient data, once for each such
\* attempt, and the chunk is appended to the buffer with its length added
\* to self.blen; the first parse attempt is made on initbody before any
\* pull; an attempt that returns a chunk or raises leaves the source alone.
C18_PullDiscipline ==
  [][/\ (source' # source \/ empties' # empties \/ ended' # ended) =>
          /\ pc = "pull"
          /\ UNCHANGED <<state, out, bused, saved, codec, schema, syncmarker>>
     /\ source' # source =>
          /\ pc' = "retry"
          /\ Len(source') < Len(source)
          /\ buffered' \o source' = buffered \o source
          /\ blen' - blen = Len(source) - Len(source')
     /\ empties' # empties =>
          /\ pc' = "retry"
          /\ buffered' = buffered
          /\ blen' = blen
     /\ pc \in {"idle", "retry"} =>
          /\ UNCHANGED <<source, empties, ended>>
          /\ pc' \in {"idle", "pull"}
     /\ pc' = "pull" => pc \in {"idle", "retry"}
    ]_vars

\* the head of the file came as initbody, the rest in two pulls within one
\* call of next(), one of them an empty chunk
C18_Witness ==
  /\ pc = "retry"
  /\ empties = 1
  /\ state = AVRO_HEADER_FILE_METADATA
  /\ Len(out) = 1
  /\ source # <<>>
  /\ Len(buffered) > 1

\* a data block and its sync marker are buffered: the two integers at the
\* head of the buffer can be read, and the bytes that the second counts,
\* and 16 more, follow them
BlockBuffered ==
  /\ state = AVRO_START_DATABLOCK
  /\ blen = Len(buffered)
  /\ _read_long(buffered, blen).exc = NoExc
  /\ _read_long(PyFrom(buffered, _read_long(buffered, blen).used),
                blen - _read_long(buffered, blen).used).exc = NoExc
  /\ _read_long(PyFrom(buffered, _read_long(buffered, blen).used),
                blen - _read_long(buffered, blen).used).val >= CsumLen
  /\ blen >= _read_long(buffered, blen).used
             + _read_long(PyFrom(buffered, _read_long(buffered, blen).used),
                          blen - _read_long(buffered, blen).used).used
             + _read_long(PyFrom(buffered, _read_long(buffered, blen).used),
                          blen - _read_long(buffered, blen).used).val
             + SyncLen

\* C19: no refill for a complete block.  A parse attempt made with a data
\* block and its sync marker buffered returns the block or raises: it does
\* not signal insufficient data.
C19_NoRefillForCompleteBlock ==
  [][(BlockBuffered /\ pc \in {"idle", "retry"}) => pc' # "pull"]_vars

\* C20: every call of next() terminates.  In _parse_file_metadata the
\* buffer is the same throughout the call, so what a pass of the while loop
\* of line 181 does follows from self.bused and block_count as it begins:
\* in a call that terminates, no pass begins with the cursor and the count
\* that the pass before it began with.
C20_MetadataLoopAdvances ==
  (pc = "while" /\ passes > 0)
    => (bused # mark.bused \/ blockcount # mark.blockcount)

\* a call that made passes of the while loop has returned the metadata
C20_Witness ==
  /\ passes >= 2
  /\ pc = "idle"
  /\ state = AVRO_SYNC_MARKER
  /\ Len(out) = 2

====
